---- MODULE Spec2Model ----
(***************************************************************************)
(* Model of the invite lifecycle of the TripHub API:                       *)
(*   apps/invite/models.py  (Invite, unique (trip, email), save)           *)
(*   apps/invite/views.py   (InvitePublicViewSet, InviteViewSet)           *)
(* A queryset is a sequence of rows (invite uids) in primary-key order; a  *)
(* row may occur more than once, as it does in the SQL result.             *)
(***************************************************************************)
EXTENDS Integers, Sequences, FiniteSets, TLC

(* ------------------------------------------------------------------ *)
(* Bounds and the fixed world the requests run in                      *)
(* ------------------------------------------------------------------ *)

\* largest number of invite rows ever created
MaxInvites == 2

\* primary keys of the users
Users == {1, 2, 3}

\* the stored email of each user
UserEmail == (1 :> <<"a">>) @@ (2 :> <<"b">>) @@ (3 :> <<"c">>) @@ (4 :> <<"B">>)

\* users among whom the one registered as "b" is replaced by one whose
\* account stores the email with a capital
CaseUsers == {1, 3, 4}

Trips == {1, 2}

TripOwner == (1 :> 1) @@ (2 :> 2)

\* public id of each trip
TripUid == (1 :> "t1") @@ (2 :> "t2")

\* public ids of invites: the n-th created invite has uid n
Uids == 1..MaxInvites

\* uids a request can name: every uid that can exist
RequestUids == Uids

\* email strings a creation request can carry
RawEmails == { <<"b">>, <<"B", " ">>, <<" ", "c">> }

None == "None"

\* values of the ?trip query parameter of a listing: absent, empty, a trip's
\* uid, or an unknown uid
TripSearches == {None, "", "t1", "zz"}

\* values of the ?trip query parameter of a cancel request
CancelTripSearches == {None, "t2"}

(* ------------------------------------------------------------------ *)
(* Statuses and responses                                              *)
(* ------------------------------------------------------------------ *)

PENDING == "pending"

ACCEPTED == "accepted"

REJECTED == "rejected"

CANCELLED == "cancelled"

Terminal == {ACCEPTED, REJECTED, CANCELLED}

\* rest_framework status / exception outcomes
NO_CONTENT == "no_content"

OK == "ok"

NOT_FOUND == "not_found"

VALIDATION_ERROR == "validation_error"

PERMISSION_DENIED == "permission_denied"

\* an exception the framework's exception handler does not translate (HTTP 500)
SERVER_ERROR == "server_error"

CREATED == "created"

\* django.db.IntegrityError raised by the unique constraint
INTEGRITY_ERROR == "integrity_error"

(* ------------------------------------------------------------------ *)
(* str.lower() and str.strip() on strings as sequences of characters   *)
(* ------------------------------------------------------------------ *)

Whitespace == {" ", "\t"}

LowerChar(c) ==
    CASE c = "A" -> "a"
      [] c = "B" -> "b"
      [] c = "C" -> "c"
      [] OTHER -> c

Lower(s) == [i \in 1..Len(s) |-> LowerChar(s[i])]

RECURSIVE LStrip(_)
LStrip(s) ==
    IF s = <<>> THEN <<>>
    ELSE IF Head(s) \in Whitespace THEN LStrip(Tail(s)) ELSE s

RECURSIVE RStrip(_)
RStrip(s) ==
    IF s = <<>> THEN <<>>
    ELSE IF s[Len(s)] \in Whitespace THEN RStrip(SubSeq(s, 1, Len(s) - 1)) ELSE s

\* a strip that leaves the trailing whitespace
StripLeftOnly(s) == LStrip(s)

Strip(s) == RStrip(LStrip(s))

\* Invite.save: self.email.lower().strip()
NormaliseEmail(e) == Strip(Lower(e))

(* ------------------------------------------------------------------ *)
(* State                                                               *)
(* ------------------------------------------------------------------ *)

VARIABLES
    invites,   \* the invite table: invites[uid] = [trip, email, status]
    members,   \* members[t]: the users in trip t's members relation
    resp,      \* the last request and its response
    pc,        \* concurrent requests: position of each request in its handler
    req,       \* concurrent requests: [op, user, uid, result] of each request
    fetched    \* concurrent requests: the invite instance a handler holds in memory

vars == <<invites, members, resp, pc, req, fetched>>

\* the anonymous (unauthenticated) requester
Anonymous == 0

NoResp == [op |-> "none", user |-> Anonymous, uid |-> 0, trip |-> None,
           result |-> "none", body |-> <<>>, email |-> <<>>, password |-> None]

Response(op, user, uid, trip, result, body) ==
    [op |-> op, user |-> user, uid |-> uid, trip |-> trip,
     result |-> result, body |-> body, email |-> <<>>, password |-> None]

Exists(invs, uid) == uid \in 1..Len(invs)

(* ------------------------------------------------------------------ *)
(* Querysets                                                           *)
(* ------------------------------------------------------------------ *)

\* the NULL member column of an unmatched LEFT OUTER JOIN row
NullMember == 0

\* n copies of row uid
RECURSIVE Repeat(_, _)
Repeat(uid, n) == IF n = 0 THEN <<>> ELSE <<uid>> \o Repeat(uid, n - 1)

\* rows of the trip_members table LEFT OUTER JOINed to an invite of trip t:
\* one row per member, or one row with a NULL member when there is none
JoinedMembers(mem, t) == IF mem[t] = {} THEN {NullMember} ELSE mem[t]

\* the rows matched by the members condition alone
InvolvedRowsMemberOnly(mem, t, user) ==
    Cardinality({m \in JoinedMembers(mem, t) : m = user})

\* number of joined rows of an invite of trip t that satisfy
\* Q(trip__owner=user) | Q(trip__members__in=[user])
InvolvedRows(mem, t, user) ==
    Cardinality({m \in JoinedMembers(mem, t) : TripOwner[t] = user \/ m = user})

\* qs.filter(trip__uid=trip_search), applied only when trip_search is truthy
TripFilter(t, trip_search) ==
    IF trip_search # None /\ trip_search # "" THEN TripUid[t] = trip_search ELSE TRUE

RECURSIVE QuerysetUpTo(_, _, _, _, _)
QuerysetUpTo(invs, mem, user, trip_search, n) ==
    IF n = 0 THEN <<>>
    ELSE QuerysetUpTo(invs, mem, user, trip_search, n - 1) \o
         (IF TripFilter(invs[n].trip, trip_search)
          THEN Repeat(n, InvolvedRows(mem, invs[n].trip, user))
          ELSE <<>>)

\* InviteViewSet.get_queryset
GetQueryset(invs, mem, user, trip_search) ==
    QuerysetUpTo(invs, mem, user, trip_search, Len(invs))

\* qs.filter(status=...)
FilterStatus(invs, qs, st) == SelectSeq(qs, LAMBDA r : invs[r].status = st)

\* Invite.objects.all()
AllInvites(invs) == [i \in 1..Len(invs) |-> i]

\* Invite.objects.pending()
PendingManager(invs) == FilterStatus(invs, AllInvites(invs), PENDING)

\* a public queryset of the invites of every status
PublicGetQuerysetAll(invs) == AllInvites(invs)

\* InvitePublicViewSet.get_queryset
PublicGetQueryset(invs) == PendingManager(invs)

DoesNotExist == "DoesNotExist"

MultipleObjectsReturned == "MultipleObjectsReturned"

Found == "Found"

\* qs.get(uid=uid): the outcome of the lookup
QsGet(qs, uid) ==
    LET n == Len(SelectSeq(qs, LAMBDA r : r = uid))
    IN  IF n = 0 THEN DoesNotExist
        ELSE IF n = 1 THEN Found
        ELSE MultipleObjectsReturned

\* the set of invites that occur in a queryset
RowSet(qs) == {qs[i] : i \in 1..Len(qs)}

(* ------------------------------------------------------------------ *)
(* Model methods                                                       *)
(* ------------------------------------------------------------------ *)

\* a constraint that only sees the pending invites
UniqueAmongPending(invs, t, email) ==
    \E i \in 1..Len(invs) :
        invs[i].trip = t /\ invs[i].email = email /\ invs[i].status = PENDING

\* the unique_together = ('trip', 'email') constraint, checked on INSERT
UniqueTogetherViolated(invs, t, email) ==
    \E i \in 1..Len(invs) : invs[i].trip = t /\ invs[i].email = email

\* Invite.save on the stored row uid: the email is normalised, all fields written
SaveRow(invs, uid, inst) ==
    [invs EXCEPT ![uid] = [inst EXCEPT !.email = NormaliseEmail(inst.email)]]

\* invite.accept() / invite.reject() / invite.cancel(): set the status, save
SetStatus(invs, uid, inst, st) == SaveRow(invs, uid, [inst EXCEPT !.status = st])

\* trip.add_member(user)
AddMember(mem, t, user) == [mem EXCEPT ![t] = @ \cup {user}]

\* a validation that lets every user through
EmailMismatchNever(inst, user) == FALSE

\* validate_user_for_invite: TRUE when NotFound is raised
EmailMismatch(inst, user) == inst.email # UserEmail[user]

\* the involvement check without the members query
AlreadyInvolvedOwnerOnly(mem, inst, user) == TripOwner[inst.trip] = user

\* accept: is_user_owner or is_user_member
AlreadyInvolved(mem, inst, user) ==
    TripOwner[inst.trip] = user \/ user \in mem[inst.trip]

(* ------------------------------------------------------------------ *)
(* Lookups and outcomes of the handlers                                *)
(* ------------------------------------------------------------------ *)

\* cancel: self.get_queryset().filter(status=PENDING).get(uid=uid)
CancelLookup(invs, mem, user, trip_search, uid) ==
    QsGet(FilterStatus(invs, GetQueryset(invs, mem, user, trip_search), PENDING), uid)

\* cancel: invite.trip.owner != self.request.user
NotOwner(inst, user) == TripOwner[inst.trip] # user

\* the response of cancel
CancelOutcome(invs, mem, user, trip_search, uid) ==
    LET got == CancelLookup(invs, mem, user, trip_search, uid)
    IN  IF got = DoesNotExist THEN NOT_FOUND
        \* MultipleObjectsReturned is not caught by the handler
        ELSE IF got = MultipleObjectsReturned THEN SERVER_ERROR
        \* the builtin PermissionError is not an API exception
        ELSE IF NotOwner(invs[uid], user) THEN SERVER_ERROR
        ELSE NO_CONTENT

\* the lookup without the restriction to pending invites
PendingLookupAnyStatus(invs, uid) == QsGet(AllInvites(invs), uid)

\* accept / reject: Invite.objects.pending().get(uid=uid)
PendingLookup(invs, uid) == QsGet(PendingManager(invs), uid)

\* the response of accept
AcceptOutcome(invs, mem, user, uid) ==
    IF PendingLookup(invs, uid) = DoesNotExist THEN NOT_FOUND
    ELSE IF EmailMismatch(invs[uid], user) THEN NOT_FOUND
    ELSE IF AlreadyInvolved(mem, invs[uid], user) THEN VALIDATION_ERROR
    ELSE NO_CONTENT

\* a reject that answers an email mismatch with a permission error
RejectOutcomeForbidden(invs, user, uid) ==
    IF PendingLookup(invs, uid) = DoesNotExist THEN NOT_FOUND
    ELSE IF EmailMismatch(invs[uid], user) THEN PERMISSION_DENIED
    ELSE NO_CONTENT

\* the response of reject
RejectOutcome(invs, user, uid) ==
    IF PendingLookup(invs, uid) = DoesNotExist THEN NOT_FOUND
    ELSE IF EmailMismatch(invs[uid], user) THEN NOT_FOUND
    ELSE NO_CONTENT

\* an accept that adds the trip's owner instead of the requesting user
AcceptMembersOwner(mem, inst, user) == AddMember(mem, inst.trip, TripOwner[inst.trip])

\* an accept that adds the requesting user to every trip
AcceptMembersEveryTrip(mem, inst, user) == [t \in Trips |-> mem[t] \cup {user}]

\* accept without the add_member call
AcceptMembersNoAdd(mem, inst, user) == mem

\* accept: the members relation after invite.trip.add_member(self.request.user)
AcceptMembers(mem, inst, user) == AddMember(mem, inst.trip, user)

\* pending: the rows the response carries
PendingBody(invs, mem, user, trip_search, paginated) ==
    LET pending_invites ==
            FilterStatus(invs, GetQueryset(invs, mem, user, trip_search), PENDING)
    IN  \* paginate_queryset returns a page: the page is serialized
        IF paginated THEN pending_invites
        \* page is None: get_serializer(None, many=True).data is the empty list
        ELSE <<>>

(* ------------------------------------------------------------------ *)
(* Requests, each handled in one step                                  *)
(* ------------------------------------------------------------------ *)

Idle == "idle"

Procs == {1, 2}

NoReq == [op |-> "none", user |-> Anonymous, uid |-> 0, result |-> "none"]

NoInvite == [trip |-> 0, email |-> <<>>, status |-> "none"]

\* the trips exist before any invite: trip 1 with any members other than its
\* owner, trip 2 without members yet
InitMembers ==
    {m \in [Trips -> SUBSET Users] : m[1] \subseteq {2, 3} /\ m[2] = {}}

Init ==
    /\ invites = <<>>
    /\ members \in InitMembers
    /\ resp = NoResp
    /\ pc = [p \in Procs |-> Idle]
    /\ req = [p \in Procs |-> NoReq]
    /\ fetched = [p \in Procs |-> NoInvite]

\* a new Invite(trip=t, email=raw) is saved: normalise, INSERT
CreateInvite(t, raw) ==
    LET email == NormaliseEmail(raw)
    IN  /\ IF UniqueTogetherViolated(invites, t, email)
           THEN /\ invites' = invites
                /\ resp' = [Response("create", Anonymous, 0, TripUid[t], INTEGRITY_ERROR, <<>>)
                               EXCEPT !.email = raw]
           ELSE /\ Len(invites) < MaxInvites
                /\ invites' = Append(invites, [trip |-> t, email |-> email, status |-> PENDING])
                /\ resp' = [Response("create", Anonymous, Len(invites) + 1, TripUid[t],
                                     CREATED, <<>>)
                               EXCEPT !.email = raw]
        /\ UNCHANGED <<members, pc, req, fetched>>

\* InvitePublicViewSet.retrieve
Retrieve(uid) ==
    /\ IF QsGet(PublicGetQueryset(invites), uid) = Found
       THEN resp' = Response("retrieve", Anonymous, uid, None, OK, <<uid>>)
       ELSE resp' = Response("retrieve", Anonymous, uid, None, NOT_FOUND, <<>>)
    /\ UNCHANGED <<invites, members, pc, req, fetched>>

\* InviteViewSet.list
List(user, trip_search) ==
    /\ resp' = Response("list", user, 0, trip_search, OK,
                        GetQueryset(invites, members, user, trip_search))
    /\ UNCHANGED <<invites, members, pc, req, fetched>>

\* InviteViewSet.pending
Pending(user, trip_search, paginated) ==
    /\ resp' = Response("pending", user, 0, trip_search, OK,
                        PendingBody(invites, members, user, trip_search, paginated))
    /\ UNCHANGED <<invites, members, pc, req, fetched>>

\* InviteViewSet.cancel
Cancel(user, trip_search, uid) ==
    LET out == CancelOutcome(invites, members, user, trip_search, uid)
    IN  /\ resp' = Response("cancel", user, uid, trip_search, out, <<>>)
        /\ invites' = IF out = NO_CONTENT
                      THEN SetStatus(invites, uid, invites[uid], CANCELLED)
                      ELSE invites
        /\ UNCHANGED <<members, pc, req, fetched>>

\* InviteViewSet.accept
Accept(user, uid) ==
    LET out == AcceptOutcome(invites, members, user, uid)
    IN  /\ resp' = Response("accept", user, uid, None, out, <<>>)
        /\ members' = IF out = NO_CONTENT
                      THEN AcceptMembers(members, invites[uid], user)
                      ELSE members
        /\ invites' = IF out = NO_CONTENT
                      THEN SetStatus(invites, uid, invites[uid], ACCEPTED)
                      ELSE invites
        /\ UNCHANGED <<pc, req, fetched>>

\* InviteViewSet.reject
Reject(user, uid) ==
    LET out == RejectOutcome(invites, user, uid)
    IN  /\ resp' = Response("reject", user, uid, None, out, <<>>)
        /\ invites' = IF out = NO_CONTENT
                      THEN SetStatus(invites, uid, invites[uid], REJECTED)
                      ELSE invites
        /\ UNCHANGED <<members, pc, req, fetched>>

\* the requests that read or change one invite
Next ==
    \/ \E t \in Trips, raw \in RawEmails : CreateInvite(t, raw)
    \/ \E uid \in RequestUids : Retrieve(uid)
    \/ \E u \in Users, ts \in CancelTripSearches, uid \in RequestUids : Cancel(u, ts, uid)
    \/ \E u \in Users, uid \in RequestUids : Accept(u, uid)
    \/ \E u \in Users, uid \in RequestUids : Reject(u, uid)

Spec == Init /\ [][Next]_vars

\* the same requests without the public retrieval, with the listings
NextList ==
    \/ \E t \in Trips, raw \in RawEmails : CreateInvite(t, raw)
    \/ \E u \in Users, ts \in CancelTripSearches, uid \in RequestUids : Cancel(u, ts, uid)
    \/ \E u \in Users, uid \in RequestUids : Accept(u, uid)
    \/ \E u \in Users, uid \in RequestUids : Reject(u, uid)
    \/ \E u \in Users, ts \in TripSearches : List(u, ts)

SpecList == Init /\ [][NextList]_vars

\* characters of the email strings of the creations below
EmailChars == {"b", "B", " "}

\* longest email string of the creations below
MaxEmailLen == 3

\* every string of at most MaxEmailLen characters
EmailStrings == UNION {[1..n -> EmailChars] : n \in 0..MaxEmailLen}

\* two trips without members and no invite
InitNorm ==
    /\ invites = <<>>
    /\ members = [t \in Trips |-> {}]
    /\ resp = NoResp
    /\ pc = [p \in Procs |-> Idle]
    /\ req = [p \in Procs |-> NoReq]
    /\ fetched = [p \in Procs |-> NoInvite]

\* invites of trip 1 are created with every email string
NextNorm == \E raw \in EmailStrings : CreateInvite(1, raw)

SpecNorm == InitNorm /\ [][NextNorm]_vars

(* ------------------------------------------------------------------ *)
(* AdminEmailBackend                                                   *)
(* ------------------------------------------------------------------ *)

\* the rows of the user table
AllUsers == Users \cup CaseUsers

\* the password of each user
UserPassword == (1 :> "pa") @@ (2 :> "pb") @@ (3 :> "pc") @@ (4 :> "pd")

\* passwords a caller can pass, None when absent
Passwords == {"pa", "pb", "zz", None}

\* the username None (the default of the parameter), which is not a string
NoUsername == <<None>>

\* usernames a caller can pass
Usernames == EmailStrings \cup {NoUsername}

\* authenticate returned the user
AUTH_USER == "user"

\* authenticate returned None
AUTH_NONE == "none"

\* authenticate raised
EXCEPTION == "exception"

\* user.check_password(password)
CheckPassword(user, password) == password # None /\ password = UserPassword[user]

\* get_user_model().objects.get(email=...): the users with that email
UsersWithEmail(email) == {u \in AllUsers : UserEmail[u] = email}

\* AdminEmailBackend.authenticate: the outcome and the user returned
AuthenticateOutcome(username, password) ==
    \* None has no lower(): AttributeError, which the except clause does not catch
    IF username = NoUsername THEN [result |-> EXCEPTION, user |-> Anonymous]
    ELSE LET found == UsersWithEmail(Strip(Lower(username)))
         IN  \* DoesNotExist is caught: pass, return None
             IF found = {} THEN [result |-> AUTH_NONE, user |-> Anonymous]
             \* MultipleObjectsReturned is not caught
             ELSE IF Cardinality(found) > 1 THEN [result |-> EXCEPTION, user |-> Anonymous]
             ELSE LET user == CHOOSE u \in found : TRUE
                  IN  IF CheckPassword(user, password)
                      THEN [result |-> AUTH_USER, user |-> user]
                      ELSE [result |-> AUTH_NONE, user |-> Anonymous]

\* one call of AdminEmailBackend.authenticate
Authenticate(username, password) ==
    LET out == AuthenticateOutcome(username, password)
    IN  /\ resp' = [Response("authenticate", out.user, 0, None, out.result, <<>>)
                       EXCEPT !.email = username, !.password = password]
        /\ UNCHANGED <<invites, members, pc, req, fetched>>

NextAuth == \E username \in Usernames, password \in Passwords : Authenticate(username, password)

SpecAuth == InitNorm /\ [][NextAuth]_vars

\* create, accept and reject with the users of CaseUsers
NextCase ==
    \/ \E t \in Trips, raw \in RawEmails : CreateInvite(t, raw)
    \/ \E u \in CaseUsers, uid \in RequestUids : Accept(u, uid)
    \/ \E u \in CaseUsers, uid \in RequestUids : Reject(u, uid)

SpecCase == Init /\ [][NextCase]_vars

\* create and the three transitions only, cancel without ?trip
NextLifecycle ==
    \/ \E t \in Trips, raw \in RawEmails : CreateInvite(t, raw)
    \/ \E u \in Users, uid \in RequestUids : Cancel(u, None, uid)
    \/ \E u \in Users, uid \in RequestUids : Accept(u, uid)
    \/ \E u \in Users, uid \in RequestUids : Reject(u, uid)

SpecLifecycle == Init /\ [][NextLifecycle]_vars

\* values of the ?trip query parameter of the listings of NextFrame
FrameTripSearches == {None, "t1"}

\* every request, cancel without ?trip
NextFrame ==
    \/ \E t \in Trips, raw \in RawEmails : CreateInvite(t, raw)
    \/ \E uid \in RequestUids : Retrieve(uid)
    \/ \E u \in Users, uid \in RequestUids : Cancel(u, None, uid)
    \/ \E u \in Users, uid \in RequestUids : Accept(u, uid)
    \/ \E u \in Users, uid \in RequestUids : Reject(u, uid)
    \/ \E u \in Users, ts \in FrameTripSearches : List(u, ts)
    \/ \E u \in Users, ts \in FrameTripSearches, pg \in BOOLEAN : Pending(u, ts, pg)

SpecFrame == Init /\ [][NextFrame]_vars

\* the same requests with the pending listing
NextPending ==
    \/ \E t \in Trips, raw \in RawEmails : CreateInvite(t, raw)
    \/ \E u \in Users, ts \in CancelTripSearches, uid \in RequestUids : Cancel(u, ts, uid)
    \/ \E u \in Users, uid \in RequestUids : Accept(u, uid)
    \/ \E u \in Users, uid \in RequestUids : Reject(u, uid)
    \/ \E u \in Users, ts \in TripSearches, pg \in BOOLEAN : Pending(u, ts, pg)

SpecPending == Init /\ [][NextPending]_vars

(* ------------------------------------------------------------------ *)
(* Concurrent requests: every database query and every write of a      *)
(* handler is a step of its own (autocommit, no transaction, no lock)  *)
(* ------------------------------------------------------------------ *)

ConcOps == {"accept", "reject", "cancel"}

\* uids a concurrent request can name: the pending invite and one that does not exist
ConcUids == {1, 2}

\* a request is over: its response is recorded and the worker is idle again
Finish(p, result) ==
    /\ pc' = [pc EXCEPT ![p] = Idle]
    /\ req' = [req EXCEPT ![p].result = result]
    /\ resp' = Response(req[p].op, req[p].user, req[p].uid, None, result, <<>>)

Goto(p, label) ==
    /\ pc' = [pc EXCEPT ![p] = label]
    /\ UNCHANGED <<req, resp>>

\* a request arrives at an idle worker
Start(p, op, user, uid) ==
    /\ pc[p] = Idle
    /\ pc' = [pc EXCEPT ![p] = op]
    /\ req' = [req EXCEPT ![p] = [op |-> op, user |-> user, uid |-> uid, result |-> "none"]]
    /\ fetched' = [fetched EXCEPT ![p] = NoInvite]
    /\ UNCHANGED <<invites, members, resp>>

\* cancel: the lookup in the user's scope and the owner check
CancelFetch(p) ==
    /\ pc[p] = "cancel"
    /\ LET out == CancelOutcome(invites, members, req[p].user, None, req[p].uid)
       IN  IF out = NO_CONTENT
           THEN /\ fetched' = [fetched EXCEPT ![p] = invites[req[p].uid]]
                /\ Goto(p, "cancel_save")
           ELSE /\ Finish(p, out)
                /\ UNCHANGED fetched
    /\ UNCHANGED <<invites, members>>

\* cancel: invite.cancel() writes the instance held in memory
CancelSave(p) ==
    /\ pc[p] = "cancel_save"
    /\ invites' = SetStatus(invites, req[p].uid, fetched[p], CANCELLED)
    /\ Finish(p, NO_CONTENT)
    /\ UNCHANGED <<members, fetched>>

\* accept / reject: the pending lookup and validate_user_for_invite
PendingFetch(p, op, next) ==
    /\ pc[p] = op
    /\ IF PendingLookup(invites, req[p].uid) = DoesNotExist
       THEN /\ Finish(p, NOT_FOUND)
            /\ UNCHANGED fetched
       ELSE IF EmailMismatch(invites[req[p].uid], req[p].user)
       THEN /\ Finish(p, NOT_FOUND)
            /\ UNCHANGED fetched
       ELSE /\ fetched' = [fetched EXCEPT ![p] = invites[req[p].uid]]
            /\ Goto(p, next)
    /\ UNCHANGED <<invites, members>>

AcceptFetch(p) == PendingFetch(p, "accept", "accept_check")

\* accept: the owner comparison and the members query
AcceptCheck(p) ==
    /\ pc[p] = "accept_check"
    /\ IF AlreadyInvolved(members, fetched[p], req[p].user)
       THEN Finish(p, VALIDATION_ERROR)
       ELSE Goto(p, "accept_add")
    /\ UNCHANGED <<invites, members, fetched>>

\* accept: invite.trip.add_member(self.request.user)
AcceptAdd(p) ==
    /\ pc[p] = "accept_add"
    /\ members' = AcceptMembers(members, fetched[p], req[p].user)
    /\ Goto(p, "accept_save")
    /\ UNCHANGED <<invites, fetched>>

\* accept: invite.accept() writes the instance held in memory
AcceptSave(p) ==
    /\ pc[p] = "accept_save"
    /\ invites' = SetStatus(invites, req[p].uid, fetched[p], ACCEPTED)
    /\ Finish(p, NO_CONTENT)
    /\ UNCHANGED <<members, fetched>>

RejectFetch(p) == PendingFetch(p, "reject", "reject_save")

\* reject: invite.reject() writes the instance held in memory
RejectSave(p) ==
    /\ pc[p] = "reject_save"
    /\ invites' = SetStatus(invites, req[p].uid, fetched[p], REJECTED)
    /\ Finish(p, NO_CONTENT)
    /\ UNCHANGED <<members, fetched>>

\* one invite is pending when the concurrent requests arrive
InitConc ==
    /\ invites = <<[trip |-> 1, email |-> <<"b">>, status |-> PENDING]>>
    /\ members \in InitMembers
    /\ resp = NoResp
    /\ pc = [p \in Procs |-> Idle]
    /\ req = [p \in Procs |-> NoReq]
    /\ fetched = [p \in Procs |-> NoInvite]

NextConc ==
    \/ \E p \in Procs, op \in ConcOps, u \in Users, uid \in ConcUids : Start(p, op, u, uid)
    \/ \E p \in Procs : CancelFetch(p)
    \/ \E p \in Procs : CancelSave(p)
    \/ \E p \in Procs : AcceptFetch(p)
    \/ \E p \in Procs : AcceptCheck(p)
    \/ \E p \in Procs : AcceptAdd(p)
    \/ \E p \in Procs : AcceptSave(p)
    \/ \E p \in Procs : RejectFetch(p)
    \/ \E p \in Procs : RejectSave(p)

SpecConc == InitConc /\ [][NextConc]_vars

(* ------------------------------------------------------------------ *)
(* Properties                                                          *)
(* ------------------------------------------------------------------ *)

\* the step is the handling of request op by user on invite uid
IsRequest(op, user, uid) ==
    resp'.op = op /\ resp'.user = user /\ resp'.uid = uid

Transitions == {"accept", "reject", "cancel"}

IsInvitee(user, uid) == UserEmail[user] = invites[uid].email

\* C1: once an invite is accepted, rejected or cancelled, no request changes
\* it, and every accept, reject or cancel on it returns not-found.
C1_TerminalFinal ==
    [][\A i \in 1..Len(invites) :
          invites[i].status \in Terminal =>
              /\ invites'[i] = invites[i]
              /\ (resp'.op \in Transitions /\ resp'.uid = i) => resp'.result = NOT_FOUND
      ]_vars

\* the invitee's accept of a cancelled invite was answered not-found
C1_Witness ==
    /\ resp.op = "accept" /\ resp.result = NOT_FOUND
    /\ Exists(invites, resp.uid)
    /\ invites[resp.uid].status = CANCELLED
    /\ IsInvitee(resp.user, resp.uid)

\* C2: an accept by the invitee of a pending invite, who is neither owner nor
\* member of the trip, returns no-content, makes the user a member and the
\* invite accepted; a later accept by the same user on that invite returns
\* not-found and changes neither the members nor the invites.
C2_AcceptOnce ==
    [][\A u \in Users, i \in 1..Len(invites) :
          IsRequest("accept", u, i) =>
              /\ (/\ invites[i].status = PENDING
                  /\ IsInvitee(u, i)
                  /\ TripOwner[invites[i].trip] # u
                  /\ u \notin members[invites[i].trip])
                 => /\ resp'.result = NO_CONTENT
                    /\ members' = [members EXCEPT ![invites[i].trip] = @ \cup {u}]
                    /\ invites' = [invites EXCEPT ![i].status = ACCEPTED]
              /\ (/\ invites[i].status = ACCEPTED
                  /\ IsInvitee(u, i)
                  /\ u \in members[invites[i].trip])
                 => /\ resp'.result = NOT_FOUND
                    /\ members' = members
                    /\ invites' = invites
      ]_vars

\* the member who accepted has accepted again and was answered not-found
C2_Witness ==
    /\ resp.op = "accept" /\ resp.result = NOT_FOUND
    /\ Exists(invites, resp.uid)
    /\ invites[resp.uid].status = ACCEPTED
    /\ IsInvitee(resp.user, resp.uid)
    /\ resp.user \in members[invites[resp.uid].trip]

\* C3: a cancel (without ?trip) by the trip's owner of a pending invite
\* returns no-content and sets the status to cancelled, whatever the members.
C3_OwnerCancels ==
    [][\A u \in Users, i \in 1..Len(invites) :
          (/\ IsRequest("cancel", u, i) /\ resp'.trip = None
           /\ invites[i].status = PENDING
           /\ TripOwner[invites[i].trip] = u)
          => /\ resp'.result = NO_CONTENT
             /\ invites'[i].status = CANCELLED
      ]_vars

\* C4: a cancel (without ?trip) of a pending invite by a user who is not the
\* trip's owner is answered with a permission error and changes no invite.
C4_NonOwnerCancelDenied ==
    [][\A u \in Users, i \in 1..Len(invites) :
          (/\ IsRequest("cancel", u, i) /\ resp'.trip = None
           /\ invites[i].status = PENDING
           /\ TripOwner[invites[i].trip] # u)
          => /\ resp'.result = PERMISSION_DENIED
             /\ invites' = invites
      ]_vars

\* C5: accept and reject of a pending invite by a user whose email differs
\* from the invite's return not-found and change neither invites nor members.
C5_WrongUserNotFound ==
    [][\A u \in Users, i \in 1..Len(invites) :
          (/\ IsRequest("accept", u, i) \/ IsRequest("reject", u, i)
           /\ invites[i].status = PENDING
           /\ UserEmail[u] # invites[i].email)
          => /\ resp'.result = NOT_FOUND
             /\ invites' = invites
             /\ members' = members
      ]_vars

\* a user other than the invitee has rejected a pending invite: not-found
C5_Witness ==
    /\ resp.op = "reject" /\ resp.result = NOT_FOUND
    /\ Exists(invites, resp.uid)
    /\ invites[resp.uid].status = PENDING
    /\ ~IsInvitee(resp.user, resp.uid)

\* C6: an accept of a pending invite by the invitee who already is the owner
\* or a member of the trip returns a validation error and changes neither
\* invites nor members.
C6_AlreadyInvolvedRejected ==
    [][\A u \in Users, i \in 1..Len(invites) :
          (/\ IsRequest("accept", u, i)
           /\ invites[i].status = PENDING
           /\ IsInvitee(u, i)
           /\ (TripOwner[invites[i].trip] = u \/ u \in members[invites[i].trip]))
          => /\ resp'.result = VALIDATION_ERROR
             /\ invites' = invites
             /\ members' = members
      ]_vars

\* a member of the trip has accepted an invite to it: validation error
C6_Witness ==
    /\ resp.op = "accept" /\ resp.result = VALIDATION_ERROR
    /\ Exists(invites, resp.uid)
    /\ invites[resp.uid].status = PENDING
    /\ IsInvitee(resp.user, resp.uid)
    /\ resp.user \in members[invites[resp.uid].trip]
    /\ TripOwner[invites[resp.uid].trip] # resp.user

\* lowercase without surrounding whitespace
IsNormalised(e) ==
    /\ \A k \in 1..Len(e) : e[k] \notin {"A", "B", "C"}
    /\ e # <<>> => (e[1] \notin Whitespace /\ e[Len(e)] \notin Whitespace)

\* no two invites of one trip have emails equal up to case and surrounding whitespace
UniquePairs(invs) ==
    \A i, j \in 1..Len(invs) :
        (invs[i].trip = invs[j].trip /\ Lower(invs[i].email) = Lower(invs[j].email))
        => i = j

\* C7: no two invites have the same trip and the same normalised email, and
\* a creation for a (trip, email) pair that exists already, in any status,
\* fails and leaves the invites unchanged.
C7_UniqueTripEmail ==
    [][/\ UniquePairs(invites')
       /\ \A i \in 1..Len(invites') : IsNormalised(invites'[i].email)
       /\ \A i \in 1..Len(invites) :
             (/\ resp'.op = "create"
              /\ resp'.trip = TripUid[invites[i].trip]
              /\ \E k \in 0..Len(resp'.email) :
                    \E m \in k..Len(resp'.email) :
                       /\ Lower(SubSeq(resp'.email, k + 1, m)) = invites[i].email
                       /\ \A x \in (1..k) \cup ((m + 1)..Len(resp'.email)) :
                             resp'.email[x] \in Whitespace)
             => /\ resp'.result = INTEGRITY_ERROR
                /\ invites' = invites
      ]_vars

\* a creation that differs in case and whitespace from a resolved invite failed
C7_Witness ==
    /\ resp.op = "create" /\ resp.result = INTEGRITY_ERROR
    /\ \E i \in 1..Len(invites) :
          /\ TripUid[invites[i].trip] = resp.trip
          /\ invites[i].status \in Terminal
          /\ invites[i].email # resp.email
          /\ invites[i].email = <<"b">> /\ resp.email = <<"B", " ">>

\* an accept of worker p has added its user to the trip and has not yet
\* written the invite's status, which is still pending
AcceptHalfDone(p) ==
    /\ pc[p] = "accept_save"
    /\ req[p].user \in members[fetched[p].trip]
    /\ invites[req[p].uid].status = PENDING

\* C8: accept is one atomic step: no other request queries or writes the
\* database between an accept's membership addition and its status change.
C8_AcceptAtomic ==
    [][\A p, q \in Procs :
          (p # q /\ AcceptHalfDone(p) /\ pc[q] # Idle) => pc'[q] = pc[q]
      ]_vars

\* C9: the public retrieval returns the invite if and only if an invite with
\* that uid exists and is pending, and not-found otherwise.
C9_PublicOnlyPending ==
    resp.op = "retrieve" =>
        IF Exists(invites, resp.uid) /\ invites[resp.uid].status = PENDING
        THEN resp.result = OK /\ resp.body = <<resp.uid>>
        ELSE resp.result = NOT_FOUND /\ resp.body = <<>>

\* the public retrieval of a resolved invite was answered not-found
C9_Witness ==
    /\ resp.op = "retrieve" /\ resp.result = NOT_FOUND
    /\ Exists(invites, resp.uid)
    /\ invites[resp.uid].status \in Terminal

\* the invites of the trips the user owns or is a member of
Visible(user) ==
    {i \in 1..Len(invites) :
        TripOwner[invites[i].trip] = user \/ user \in members[invites[i].trip]}

\* C10: the listing is the set of the invites, of any status, whose trip the
\* user owns or is a member of; with a trip identifier in ?trip it is those of
\* them whose trip has that public id (an empty ?trip carries no identifier
\* and does not filter).
C10_Listing ==
    resp.op = "list" =>
        RowSet(resp.body) =
            IF resp.trip = None \/ resp.trip = "" THEN Visible(resp.user)
            ELSE {i \in Visible(resp.user) : TripUid[invites[i].trip] = resp.trip}

\* a member's listing filtered by trip shows a resolved invite of that trip
\* and leaves out an invite of another trip the user is involved in
C10_Witness ==
    /\ resp.op = "list" /\ resp.trip = "t1"
    /\ TripOwner[1] # resp.user
    /\ \E i \in RowSet(resp.body) : invites[i].status \in Terminal
    /\ \E i \in Visible(resp.user) : i \notin RowSet(resp.body)

\* the pending invites of the user's listing scope
PendingVisible(user, trip_search) ==
    {i \in Visible(user) :
        /\ invites[i].status = PENDING
        /\ (trip_search = None \/ trip_search = "" \/ TripUid[invites[i].trip] = trip_search)}

\* C11: the pending listing returns exactly the pending invites of the user's
\* listing scope, whether the paginator returns a page or no page.
C11_PendingListing ==
    resp.op = "pending" => RowSet(resp.body) = PendingVisible(resp.user, resp.trip)

\* invite uid is absent, resolved, or addressed to another email than the user's
Hidden(invs, user, uid) ==
    \/ ~Exists(invs, uid)
    \/ invs[uid].status # PENDING
    \/ invs[uid].email # UserEmail[user]

\* the invite tables that differ from invs only in invite uid: its status and
\* email replaced, the invite absent when it is the last row, or present when
\* uid is the next free row
VariantsOf(invs, uid) ==
    LET rows == {[trip |-> t, email |-> UserEmail[u], status |-> st] :
                    t \in Trips, u \in Users, st \in {PENDING} \cup Terminal}
    IN  IF Exists(invs, uid)
        THEN {[invs EXCEPT ![uid] = r] : r \in {x \in rows : x.trip = invs[uid].trip}}
             \cup (IF uid = Len(invs) THEN {SubSeq(invs, 1, uid - 1)} ELSE {})
        ELSE IF uid = Len(invs) + 1 THEN {Append(invs, r) : r \in rows}
        ELSE {}

\* user gets the same accept and reject responses on uid in invs and in every
\* table that differs from invs in that invite and hides it from the user too
Indistinguishable(invs, mem, user, uid) ==
    \A other \in VariantsOf(invs, uid) :
        Hidden(other, user, uid) =>
            /\ AcceptOutcome(invs, mem, user, uid) = AcceptOutcome(other, mem, user, uid)
            /\ RejectOutcome(invs, user, uid) = RejectOutcome(other, user, uid)

\* C12: accept and reject answer with the same not-found response, and change
\* nothing, when the invite does not exist, is not pending, or is pending for
\* another email; states that differ only in such an invite give the user the
\* same accept and reject responses.
C12_NotFoundUniform ==
    [][\A u \in Users, i \in RequestUids, op \in {"accept", "reject"} :
          (IsRequest(op, u, i) /\ Hidden(invites, u, i))
          => /\ resp' = Response(op, u, i, None, NOT_FOUND, <<>>)
             /\ invites' = invites
             /\ members' = members
             /\ Indistinguishable(invites, members, u, i)
      ]_vars

\* a reject of an invite that does not exist was answered not-found while
\* another invite is pending for the user and a third party's is resolved
C12_Witness ==
    /\ resp.op = "reject" /\ resp.result = NOT_FOUND
    /\ ~Exists(invites, resp.uid)
    /\ \E i \in 1..Len(invites) : invites[i].status = PENDING

\* e without its leading and trailing whitespace, as the slice that has only
\* whitespace outside and none at its ends
IsCore(e, k, m) ==
    /\ \A x \in (1..k) \cup ((m + 1)..Len(e)) : e[x] \in Whitespace
    /\ k < m => (e[k + 1] \notin Whitespace /\ e[m] \notin Whitespace)

\* e1 and e2 differ only in letter case and surrounding whitespace
SameUpToCaseAndSpace(e1, e2) ==
    \E k1 \in 0..Len(e1), k2 \in 0..Len(e2) :
        \E m1 \in k1..Len(e1), m2 \in k2..Len(e2) :
            /\ IsCore(e1, k1, m1) /\ IsCore(e2, k2, m2)
            /\ m1 - k1 = m2 - k2
            /\ \A x \in 1..(m1 - k1) : LowerChar(e1[k1 + x]) = LowerChar(e2[k2 + x])

\* C13: normalising twice is normalising once; every stored email is its own
\* normalisation, lowercase without surrounding whitespace; emails that differ
\* only in case or surrounding whitespace are stored as the same value and
\* collide under the (trip, email) constraint.
C13_NormalisationCanonical ==
    /\ \A i \in 1..Len(invites) :
          /\ IsNormalised(invites[i].email)
          /\ NormaliseEmail(invites[i].email) = invites[i].email
    /\ \A i, j \in 1..Len(invites) :
          (invites[i].trip = invites[j].trip
           /\ SameUpToCaseAndSpace(invites[i].email, invites[j].email)) => i = j
    /\ resp.op = "create" =>
          /\ NormaliseEmail(NormaliseEmail(resp.email)) = NormaliseEmail(resp.email)
          /\ \A e \in EmailStrings :
                SameUpToCaseAndSpace(resp.email, e)
                => NormaliseEmail(e) = NormaliseEmail(resp.email)
          /\ resp.result = CREATED
             => SameUpToCaseAndSpace(invites[resp.uid].email, resp.email)
          /\ resp.result = INTEGRITY_ERROR
             => \E i \in 1..Len(invites) :
                   /\ TripUid[invites[i].trip] = resp.trip
                   /\ SameUpToCaseAndSpace(invites[i].email, resp.email)

\* a creation with capitals and whitespace on both sides collided with a
\* stored lowercase email
C13_Witness ==
    /\ resp.op = "create" /\ resp.result = INTEGRITY_ERROR
    /\ resp.email = <<" ", "B", " ">>
    /\ \E i \in 1..Len(invites) :
          TripUid[invites[i].trip] = resp.trip /\ invites[i].email = <<"b">>

\* C14: accept and reject of a pending invite by a user whose email equals
\* the invite's up to letter case and surrounding whitespace do not answer
\* not-found: the email check takes the user for the invitee.
C14_EmailMatchInsensitive ==
    [][\A u \in CaseUsers, i \in 1..Len(invites) :
          (/\ IsRequest("accept", u, i) \/ IsRequest("reject", u, i)
           /\ invites[i].status = PENDING
           /\ SameUpToCaseAndSpace(UserEmail[u], invites[i].email))
          => resp'.result # NOT_FOUND
      ]_vars

\* the user whose email is the normalised username and whose password is the one given
Verified(u, username, password) ==
    /\ username # NoUsername
    /\ IsNormalised(UserEmail[u])
    /\ SameUpToCaseAndSpace(UserEmail[u], username)
    /\ password = UserPassword[u]

\* C15: authenticate never raises; it returns the user whose email is the
\* normalised username when the password verifies, and None in every other
\* case, an absent username included.
C15_AuthenticateSilent ==
    resp.op = "authenticate" =>
        /\ resp.result # EXCEPTION
        /\ IF \E u \in AllUsers : Verified(u, resp.email, resp.password)
           THEN /\ resp.result = AUTH_USER
                /\ Verified(resp.user, resp.email, resp.password)
           ELSE resp.result = AUTH_NONE

\* the status a successful request leaves
StatusOf(op) ==
    CASE op = "accept" -> ACCEPTED
      [] op = "reject" -> REJECTED
      [] op = "cancel" -> CANCELLED

\* C16: of the concurrent accept, reject and cancel requests on one pending
\* invite at most one returns success; when all are over the invite has the
\* status that request set, so a user added by an accept is a member only of
\* a trip whose invite ended accepted.
C16_MutuallyExclusive ==
    \A p, q \in Procs :
        /\ (/\ p # q
            /\ req[p].result = NO_CONTENT /\ req[q].result = NO_CONTENT)
           => req[p].uid # req[q].uid
        /\ (/\ \A w \in Procs : pc[w] = Idle
            /\ req[p].result = NO_CONTENT)
           => invites[req[p].uid].status = StatusOf(req[p].op)

\* C17: the user-scoped queryset has no duplicate rows: the listing shows every
\* visible invite once, and the lookup of a visible invite by uid in the
\* user's scope finds exactly one row.
C17_NoDuplicateRows ==
    /\ resp.op = "list" =>
          \A a, b \in 1..Len(resp.body) : resp.body[a] = resp.body[b] => a = b
    /\ \A u \in Users :
          \A i \in Visible(u) :
              QsGet(GetQueryset(invites, members, u, None), i) = Found

\* C18: every accepted invite has a user with the invite's email among the
\* members of its trip, and no request adds a trip's owner to its members.
C18_AcceptedImpliesMember ==
    [][/\ \A i \in 1..Len(invites') :
             invites'[i].status = ACCEPTED =>
                 \E u \in Users :
                     UserEmail[u] = invites'[i].email /\ u \in members'[invites'[i].trip]
       /\ \A t \in Trips : TripOwner[t] \notin members'[t] \ members[t]
      ]_vars

\* an invite was accepted and another one has been cancelled since
C18_Witness ==
    /\ resp.op = "cancel" /\ resp.result = NO_CONTENT
    /\ \E i \in 1..Len(invites) :
          /\ invites[i].status = ACCEPTED
          /\ \E u \in Users :
                UserEmail[u] = invites[i].email /\ u \in members[invites[i].trip]

\* C19: cancel and reject change no membership; accept changes only the
\* membership of the invite's trip, only by adding the requesting user; each
\* of the three changes at most the status of the invite it names and no
\* invite's trip or email; list, pending and retrieve change nothing.
C19_Frame ==
    [][/\ resp'.op \in {"cancel", "reject", "list", "pending", "retrieve"}
             => members' = members
       /\ resp'.op \in {"list", "pending", "retrieve"} => invites' = invites
       /\ resp'.op = "accept" =>
             \A t \in Trips :
                 /\ members[t] \subseteq members'[t]
                 /\ members'[t] # members[t] =>
                       /\ Exists(invites, resp'.uid)
                       /\ t = invites[resp'.uid].trip
                       /\ members'[t] = members[t] \cup {resp'.user}
       /\ resp'.op \in Transitions =>
             /\ Len(invites') = Len(invites)
             /\ \A j \in 1..Len(invites) :
                   /\ invites'[j].trip = invites[j].trip
                   /\ invites'[j].email = invites[j].email
                   /\ j # resp'.uid => invites'[j] = invites[j]
      ]_vars

\* an accept succeeded while another invite and another trip exist
C19_Witness ==
    /\ resp.op = "accept" /\ resp.result = NO_CONTENT
    /\ Len(invites) >= 2
    /\ \E j \in 1..Len(invites) :
          j # resp.uid /\ invites[j].trip # invites[resp.uid].trip

====
